---- MODULE Spec2Model ----
(***************************************************************************)
(* Request pipeline of the IRAC generator (src/app_new.py): the handler of *)
(* POST /api/generate_irac, its upload validation, the shared TTL cache,   *)
(* text extraction, prompt rendering and the completion call.              *)
(*                                                                         *)
(* Characters are their code points, strings are sequences of code points. *)
(* Each request runs the handler top to bottom; requests interleave at the *)
(* points where the handler touches the shared cache or waits for the      *)
(* completion service (the development server runs one thread a request).  *)
(***************************************************************************)
EXTENDS Integers, Sequences, FiniteSets, TLC

\* ------------------------------------------------------------ bounds

\* Number of requests the model follows.
NumReqs == 2

\* Capacity of the cache in the model.  The program sets maxsize=100
\* (src/app_new.py:70); the model scales it down so that capacity eviction
\* happens within NumReqs requests.
CacheMaxSize == 1

\* The clock advances at most this many times.
MaxTicks == 2

\* The longest string given to sanitize_input on its own.
MaxSanLen == 2

\* ------------------------------------------------- program constants

MAX_CONTENT_LENGTH == 16 * 1024 * 1024

OPENAI_TIMEOUT == 30

\* response_cache = TTLCache(maxsize=100, ttl=300)
TTL == 300

\* The character budget of the prompt: case_text[:3000] in src/app.py.
CHAR_BUDGET == 3000

\* 'pdf'
ALLOWED_EXTENSIONS == {<<112, 100, 102>>}

\* One step of the clock: half the TTL, so that an expiry is met exactly.
TickStep == TTL \div 2

\* None: a value that is no string (no sequence of code points).
NONE == <<-1>>

\* ---------------------------------------------------- string helpers

Dot == 46

\* str.lower() on one ASCII character.
lower(c) == IF c >= 65 /\ c <= 90 THEN c + 32 ELSE c

lowerStr(s) == [i \in 1..Len(s) |-> lower(s[i])]

\* The index of the last '.' of s, 0 when there is none.
LastDot(s) ==
    LET dots == {i \in 1..Len(s) : s[i] = Dot}
    IN  IF dots = {} THEN 0 ELSE CHOOSE i \in dots : \A j \in dots : j <= i

\* filename.rsplit('.', 1)[1]
rsplitExt(s) == SubSeq(s, LastDot(s) + 1, Len(s))

\* allowed_file without the test of the extension.
allowed_file_any_extension(filename) == LastDot(filename) # 0

allowed_file(filename) ==
    /\ LastDot(filename) # 0
    /\ lowerStr(rsplitExt(filename)) \in ALLOWED_EXTENSIONS

\* The characters re.sub(r'[^\x20-\x7E\n]', '', ...) keeps.
Printable(c) == (c >= 32 /\ c <= 126) \/ c = 10

\* sanitize_input with a character class that has no newline in it.
sanitize_input_drops_newline(text) ==
    IF text = NONE \/ text = <<>> THEN <<>>
    ELSE LET Ascii(c) == c >= 32 /\ c <= 126 IN SelectSeq(text, Ascii)

sanitize_input(text) ==
    IF text = NONE \/ text = <<>> THEN <<>>
    ELSE SelectSeq(text, Printable)

\* request.form.get(field, default): a form field is [set, v].
form_get(field, default) == IF field.set THEN field.v ELSE default

\* hashlib.md5(json.dumps(args)).hexdigest(): the fingerprint of the three
\* arguments, taken as injective (md5 collisions are not modelled).
generate_cache_key(filename, role, case_name) == <<filename, role, case_name>>

\* str.isspace() for the characters str.strip() removes.
IsSpace(c) == c \in {9, 10, 11, 12, 13, 28, 29, 30, 31, 32, 133, 160}

\* not text.strip()
StripsToEmpty(text) == \A i \in 1..Len(text) : IsSpace(text[i])

RECURSIVE ConcatPages(_)
\* text += page.extract_text() or ""   for every page
ConcatPages(pages) ==
    IF pages = <<>> THEN <<>>
    ELSE (IF Head(pages) = NONE THEN <<>> ELSE Head(pages)) \o ConcatPages(Tail(pages))

\* extract_text_from_pdf: the text, or the ValueError it raises.
extract_text_from_pdf(doc) ==
    IF doc.corrupt THEN [raised |-> TRUE, text |-> <<>>]
    ELSE [raised |-> FALSE, text |-> ConcatPages(doc.pages)]

\* ------------------------------------------------------- TTLCache
\* The cache is the sequence of its links, least recently used first; a link
\* is [key, value, expires], and at is the time it was inserted (the library
\* keeps only expires; at is kept to state the lifetime of an entry).

HasKey(c, k) == \E i \in 1..Len(c) : c[i].key = k

LinkOf(c, k) == c[CHOOSE i \in 1..Len(c) : c[i].key = k]

Without(c, k) ==
    LET Keep(e) == e.key # k IN SelectSeq(c, Keep)

\* TTLCache.expire(time): drops every link with not (time < expires).
expire(c, t) ==
    LET Keep(e) == t < e.expires IN SelectSeq(c, Keep)

\* cache_contains that still finds a link at the second it expires.
cache_contains_inclusive(c, k, t) == HasKey(c, k) /\ t <= LinkOf(c, k).expires

\* key in response_cache: no reordering, an expired link counts as absent.
cache_contains(c, k, t) == HasKey(c, k) /\ t < LinkOf(c, k).expires

\* response_cache[key]: the link moves to the most recently used end; a
\* missing or expired key raises KeyError.
cache_getitem(c, k, t) ==
    IF ~HasKey(c, k) THEN [raised |-> TRUE, value |-> NONE, cache |-> c]
    ELSE LET e == LinkOf(c, k)
             moved == Append(Without(c, k), e)
         IN  IF t < e.expires
             THEN [raised |-> FALSE, value |-> e.value, cache |-> moved]
             ELSE [raised |-> TRUE, value |-> NONE, cache |-> moved]

RECURSIVE popUntilFits(_)
\* while currsize + 1 > maxsize: popitem()   (the least recently used link)
popUntilFits(c) ==
    IF Len(c) + 1 > CacheMaxSize /\ c # <<>> THEN popUntilFits(Tail(c)) ELSE c

\* cache_setitem that leaves the value of a key it already holds.
cache_setitem_keeps_old(c, k, v, t) ==
    LET live == expire(c, t)
        room == IF HasKey(live, k) THEN live ELSE popUntilFits(live)
        kept == IF HasKey(live, k) THEN LinkOf(live, k).value ELSE v
    IN  Append(Without(room, k), [key |-> k, value |-> kept, expires |-> t + TTL, at |-> t])

\* response_cache[key] = value: expired links go first, a new key makes room
\* by evicting, and the link is (re)inserted with expires = time + ttl.
cache_setitem(c, k, v, t) ==
    LET live == expire(c, t)
        room == IF HasKey(live, k) THEN live ELSE popUntilFits(live)
    IN  Append(Without(room, k), [key |-> k, value |-> v, expires |-> t + TTL, at |-> t])

\* ------------------------------------------------------ the prompt
\* The rendered f-string is kept as its template and the two values
\* interpolated into it.

build_prompt(role, case_name, text) ==
    IF role = "law_student"
    THEN [template |-> "irac_analysis", case_name |-> case_name, text |-> text]
    ELSE [template |-> "case_summary", case_name |-> case_name, text |-> text]

\* ------------------------------------------------------ the inputs

Reqs == 1..NumReqs

Field(v) == [set |-> TRUE, v |-> v]
NoField == [set |-> FALSE, v |-> <<>>]

A_PDF == <<97, 46, 112, 100, 102>>
A_PDF_UPPER == <<65, 46, 80, 68, 70>>
B_TXT == <<98, 46, 116, 120, 116>>
PDF_NO_DOT == <<112, 100, 102>>
ROE == <<82, 111, 101>>
ROE_TAB == <<82, 111, 101, 9>>
UNNAMED_CASE == <<85, 110, 110, 97, 109, 101, 100, 32, 67, 97, 115, 101>>

DocOk == [corrupt |-> FALSE, pages |-> << <<83, 109>> >>]
DocNonePage == [corrupt |-> FALSE, pages |-> << NONE, <<74>> >>]
DocZeroPages == [corrupt |-> FALSE, pages |-> << >>]
DocBlank == [corrupt |-> FALSE, pages |-> << <<32, 10>>, NONE >>]
DocCorrupt == [corrupt |-> TRUE, pages |-> << >>]

Upload(has, name, role, case, size, doc) ==
    [hasFile |-> has, filename |-> name, role |-> role, case_name |-> case,
     size |-> size, doc |-> doc]

\* The requests the model sends: every validation outcome, the document
\* kinds, and three fingerprints (two uploads of the first differ only in a
\* character the sanitizer removes).
Inputs ==
    { Upload(TRUE, A_PDF, NoField, Field(ROE), 1, DocOk),
      Upload(TRUE, A_PDF, Field("law_student"), Field(ROE_TAB), 1, DocCorrupt),
      Upload(TRUE, A_PDF, Field("law_student"), Field(ROE), 1, DocZeroPages),
      Upload(TRUE, A_PDF_UPPER, Field("paralegal"), NoField, MAX_CONTENT_LENGTH, DocNonePage),
      Upload(TRUE, A_PDF_UPPER, Field("paralegal"), NoField, 1, DocBlank),
      Upload(TRUE, B_TXT, NoField, Field(ROE), 1, DocOk),
      Upload(TRUE, PDF_NO_DOT, NoField, Field(ROE), 1, DocOk),
      Upload(TRUE, <<>>, NoField, Field(ROE), 1, DocOk),
      Upload(FALSE, <<>>, NoField, Field(ROE), 1, DocOk),
      Upload(TRUE, A_PDF, NoField, Field(ROE), MAX_CONTENT_LENGTH + 1, DocOk) }

NoInput == Upload(FALSE, <<>>, NoField, NoField, 0, DocZeroPages)

\* What the completion service does with a call: it raises, or it returns a
\* response with no choices, or one whose first choice has this content.
ISSUE_TEXT == <<35, 35, 32, 73, 83, 83, 85, 69>>
Outcomes ==
    { [kind |-> "AuthenticationError", content |-> NONE],
      [kind |-> "APIError", content |-> NONE],
      [kind |-> "no_choices", content |-> NONE],
      [kind |-> "content", content |-> NONE],
      [kind |-> "content", content |-> <<>>],
      [kind |-> "content", content |-> ISSUE_TEXT] }

NoOutcome == [kind |-> "none", content |-> NONE]

\* ------------------------------------------------------- the state

VARIABLES
    now,             \* the cache's timer, in seconds
    response_cache,  \* the shared TTLCache
    pc,              \* where each request's handler stands
    upload,          \* the request: files, form, content length
    cache_key,       \* the handler's cache_key
    text,            \* the handler's extracted text
    prompt,          \* the handler's prompt
    result,          \* the handler's result dict
    resp,            \* the response: [status, body]
    outcome,         \* what the completion service did with the call
    callStart,       \* when the pending completion call was made
    trace,           \* the operations the handler has performed, in order
    hist,            \* what each request met: see NoHist
    san              \* a call of sanitize_input on its own: see NoCall

vars == <<now, response_cache, pc, upload, cache_key, text, prompt, result,
          resp, outcome, callStart, trace, hist, san>>

NoResp == [status |-> 0, body |-> [pending |-> TRUE]]
NoPrompt == [template |-> "none", case_name |-> <<>>, text |-> <<>>]
NoResult == [pending |-> TRUE]
NoKey == <<NONE, "", NONE>>
NoLink == [key |-> NoKey, value |-> NoResult, expires |-> 0, at |-> 0]

\* The history of a request, kept to state the properties:
\*   prior     the requests that had answered 200 after storing their result
\*             less than TTL before this one arrived
\*   hit       the link its membership test found, NoLink when it found none
\*   read      the link its read returned, NoLink when it returned none
\*   storedAt  when it stored its result, -1 when it has not
NoHist == [prior |-> {}, hit |-> NoLink, read |-> NoLink, storedAt |-> -1]

\* A call of sanitize_input outside the handler: the argument, what the call
\* returned, what a call on that result returned, and the calls made so far.
Called(x) == [arg |-> x, once |-> <<>>, twice |-> <<>>, calls |-> 0]
NoCall == Called(<<>>)

Error(status, message) == [status |-> status, body |-> [error |-> message]]

\* The state of the handlers and of the cache when the server has started.
InitServer ==
    /\ now = 0
    /\ response_cache = <<>>
    /\ pc = [r \in Reqs |-> "Idle"]
    /\ upload = [r \in Reqs |-> NoInput]
    /\ cache_key = [r \in Reqs |-> NoKey]
    /\ text = [r \in Reqs |-> <<>>]
    /\ prompt = [r \in Reqs |-> NoPrompt]
    /\ result = [r \in Reqs |-> NoResult]
    /\ resp = [r \in Reqs |-> NoResp]
    /\ outcome = [r \in Reqs |-> NoOutcome]
    /\ callStart = [r \in Reqs |-> 0]
    /\ trace = [r \in Reqs |-> <<>>]
    /\ hist = [r \in Reqs |-> NoHist]

Init ==
    /\ InitServer
    /\ san = NoCall

\* return jsonify(...), status: the response is set and the handler ends.
Return(r, response, ops) ==
    /\ resp' = [resp EXCEPT ![r] = response]
    /\ pc' = [pc EXCEPT ![r] = "Done"]
    /\ trace' = [trace EXCEPT ![r] = trace[r] \o ops \o <<"respond">>]

\* The handler goes on to its next stage.
Goto(r, stage, ops) ==
    /\ pc' = [pc EXCEPT ![r] = stage]
    /\ trace' = [trace EXCEPT ![r] = trace[r] \o ops]
    /\ resp' = resp

\* ---------------------------------------------- generate_irac, by stage

\* role = request.form.get('role', 'law_student')
RoleOf(u) == form_get(u.role, "law_student")

\* case_name = sanitize_input(request.form.get('case_name', 'Unnamed Case'))
CaseNameOf(u) == sanitize_input(form_get(u.case_name, UNNAMED_CASE))

\* A request arrives and the handler validates the upload.  Reading
\* request.files raises RequestEntityTooLarge for a body over
\* MAX_CONTENT_LENGTH; then the three checks; then the cache key.
Validate(r, u) ==
    /\ pc[r] = "Idle"
    /\ \A q \in Reqs : q < r => pc[q] # "Idle"
    /\ upload' = [upload EXCEPT ![r] = u]
    /\ hist' = [hist EXCEPT ![r].prior =
                   {p \in Reqs : /\ pc[p] = "Done"
                                 /\ resp[p].status = 200
                                 /\ hist[p].storedAt >= 0
                                 /\ now < hist[p].storedAt + TTL}]
    /\ IF u.size > MAX_CONTENT_LENGTH
       THEN Return(r, Error(413, "File too large"), <<"validate">>)
            /\ cache_key' = cache_key
       ELSE IF ~u.hasFile
       THEN Return(r, Error(400, "No file part"), <<"validate">>)
            /\ cache_key' = cache_key
       ELSE IF u.filename = <<>>
       THEN Return(r, Error(400, "No selected file"), <<"validate">>)
            /\ cache_key' = cache_key
       ELSE IF ~allowed_file(u.filename)
       THEN Return(r, Error(400, "Invalid file type. Only PDF files are allowed."),
                   <<"validate">>)
            /\ cache_key' = cache_key
       ELSE /\ cache_key' = [cache_key EXCEPT ![r] =
                                generate_cache_key(u.filename, RoleOf(u), CaseNameOf(u))]
            /\ Goto(r, "CacheLookup", <<"validate">>)
    /\ UNCHANGED <<san, now, response_cache, text, prompt, result, outcome, callStart>>

\* if cache_key in response_cache:
CacheLookup(r) ==
    /\ pc[r] = "CacheLookup"
    /\ IF cache_contains(response_cache, cache_key[r], now)
       THEN /\ Goto(r, "CacheHit", <<"contains">>)
            /\ hist' = [hist EXCEPT ![r].hit = LinkOf(response_cache, cache_key[r])]
       ELSE /\ Goto(r, "Extracting", <<"contains">>)
            /\ hist' = hist
    /\ UNCHANGED <<san, now, response_cache, upload, cache_key, text, prompt, result,
                   outcome, callStart>>

\* CacheHit with the hit marked in the payload it returns.
CacheHit_marks_cached(r) ==
    /\ pc[r] = "CacheHit"
    /\ LET got == cache_getitem(response_cache, cache_key[r], now)
       IN  /\ response_cache' = got.cache
           /\ IF got.raised
              THEN /\ Return(r, Error(500, "An unexpected error occurred"), <<"getitem">>)
                   /\ hist' = hist
              ELSE /\ Return(r, [status |-> 200,
                                 body |-> [got.value EXCEPT !.cached = TRUE]],
                             <<"getitem">>)
                   /\ hist' = [hist EXCEPT ![r].read = LinkOf(response_cache, cache_key[r])]
    /\ UNCHANGED <<san, now, upload, cache_key, text, prompt, result, outcome, callStart>>

\* return jsonify(response_cache[cache_key]); a KeyError goes to the outer
\* except Exception.
CacheHit(r) ==
    /\ pc[r] = "CacheHit"
    /\ LET got == cache_getitem(response_cache, cache_key[r], now)
       IN  /\ response_cache' = got.cache
           /\ IF got.raised
              THEN /\ Return(r, Error(500, "An unexpected error occurred"), <<"getitem">>)
                   /\ hist' = hist
              ELSE /\ Return(r, [status |-> 200, body |-> got.value], <<"getitem">>)
                   /\ hist' = [hist EXCEPT ![r].read = LinkOf(response_cache, cache_key[r])]
    /\ UNCHANGED <<san, now, upload, cache_key, text, prompt, result, outcome, callStart>>

\* text = extract_text_from_pdf(file), and the two 400 answers.
Extract(r) ==
    /\ pc[r] = "Extracting"
    /\ LET got == extract_text_from_pdf(upload[r].doc)
       IN  IF got.raised
           THEN Return(r, Error(400, "Error processing PDF file"), <<"extract">>)
                /\ text' = text
           ELSE IF StripsToEmpty(got.text)
           THEN Return(r, Error(400, "The uploaded PDF appears to be empty or could not be read"),
                       <<"extract">>)
                /\ text' = text
           ELSE /\ text' = [text EXCEPT ![r] = got.text]
                /\ Goto(r, "Prompting", <<"extract">>)
    /\ UNCHANGED <<san, now, response_cache, upload, cache_key, prompt, result, outcome,
                   callStart, hist>>

\* The prompt is rendered and openai.ChatCompletion.create is called with it.
Prompt(r) ==
    /\ pc[r] = "Prompting"
    /\ prompt' = [prompt EXCEPT ![r] =
                     build_prompt(RoleOf(upload[r]), CaseNameOf(upload[r]), text[r])]
    /\ callStart' = [callStart EXCEPT ![r] = now]
    /\ Goto(r, "Completing", <<"prompt", "complete">>)
    /\ UNCHANGED <<san, now, response_cache, upload, cache_key, text, result, outcome, hist>>

\* str(e) of the exception the completion call ended with: the text the
\* handler logs.  The library's messages stand for themselves; that of the
\* IndexError is Python's.
str_e(o) ==
    CASE o.kind = "AuthenticationError" -> "Incorrect API key provided"
      [] o.kind = "APIError" -> "The server had an error while processing your request"
      [] o.kind = "no_choices" -> "list index out of range"
      [] OTHER -> ""

\* Complete with the text of the caught exception as the error of the body.
Complete_answers_str_e(r, o) ==
    /\ pc[r] = "Completing"
    /\ outcome' = [outcome EXCEPT ![r] = o]
    /\ IF o.kind # "content"
       THEN Return(r, Error(500, str_e(o)), <<>>)
            /\ result' = result
       ELSE /\ result' = [result EXCEPT ![r] =
                             [analysis |-> o.content, model |-> "gpt-4",
                              usage |-> "usage", cached |-> FALSE]]
            /\ Goto(r, "Caching", <<>>)
    /\ callStart' = [callStart EXCEPT ![r] = 0]
    /\ UNCHANGED <<san, now, response_cache, upload, cache_key, text, prompt, hist>>

\* The call ends: it raised, or response.choices[0] raises IndexError, or the
\* result dict is built from the first choice's content.
Complete(r, o) ==
    /\ pc[r] = "Completing"
    /\ outcome' = [outcome EXCEPT ![r] = o]
    /\ IF o.kind # "content"
       THEN Return(r, Error(500, "Error generating analysis. Please try again later."), <<>>)
            /\ result' = result
       ELSE /\ result' = [result EXCEPT ![r] =
                             [analysis |-> o.content, model |-> "gpt-4",
                              usage |-> "usage", cached |-> FALSE]]
            /\ Goto(r, "Caching", <<>>)
    /\ callStart' = [callStart EXCEPT ![r] = 0]
    /\ UNCHANGED <<san, now, response_cache, upload, cache_key, text, prompt, hist>>

\* response_cache[cache_key] = result
Store(r) ==
    /\ pc[r] = "Caching"
    /\ response_cache' = cache_setitem(response_cache, cache_key[r], result[r], now)
    /\ Goto(r, "Responding", <<"setitem">>)
    /\ hist' = [hist EXCEPT ![r].storedAt = now]
    /\ UNCHANGED <<san, now, upload, cache_key, text, prompt, result, outcome, callStart>>

\* return jsonify(result)
Respond(r) ==
    /\ pc[r] = "Responding"
    /\ Return(r, [status |-> 200, body |-> result[r]], <<>>)
    /\ UNCHANGED <<san, now, response_cache, upload, cache_key, text, prompt, result,
                   outcome, callStart, hist>>

\* Time passes.
Tick ==
    /\ now < MaxTicks * TickStep
    /\ now' = now + TickStep
    /\ UNCHANGED <<san, response_cache, pc, upload, cache_key, text, prompt, result,
                   resp, outcome, callStart, trace, hist>>

Next ==
    \/ \E r \in Reqs, u \in Inputs : Validate(r, u)
    \/ \E r \in Reqs : CacheLookup(r)
    \/ \E r \in Reqs : CacheHit(r)
    \/ \E r \in Reqs : Extract(r)
    \/ \E r \in Reqs : Prompt(r)
    \/ \E r \in Reqs, o \in Outcomes : Complete(r, o)
    \/ \E r \in Reqs : Store(r)
    \/ \E r \in Reqs : Respond(r)
    \/ Tick

Spec == Init /\ [][Next]_vars

\* ------------------------------------- the prompt of long documents
\* One request at a time, with documents around the character budget.

LongText(n) == [i \in 1..n |-> 65 + (i % 26)]

LongDoc(n) == [corrupt |-> FALSE, pages |-> << LongText(n) >>]

LongInputs ==
    { Upload(TRUE, A_PDF, role, Field(ROE), n, LongDoc(n)) :
        role \in {NoField, Field("paralegal"), Field("student")},
        n \in {1, CHAR_BUDGET - 1, CHAR_BUDGET, CHAR_BUDGET + 1} }

PromptNext ==
    \/ \E u \in LongInputs : Validate(1, u)
    \/ CacheLookup(1)
    \/ Extract(1)
    \/ Prompt(1)
    \/ \E o \in Outcomes : Complete(1, o)
    \/ Store(1)
    \/ Respond(1)

PromptSpec == Init /\ [][PromptNext]_vars

\* ------------------------------------------ sanitize_input on its own
\* The function is called on a string, or on None, and then on its result.

\* Tab, newline, carriage return, unit separator, space, 'A', '~', DEL,
\* e-acute and the right single quotation mark.
SanChars == {9, 10, 13, 31, 32, 65, 126, 127, 233, 8217}

RECURSIVE Strings(_)
\* The strings of SanChars of length n or less.
Strings(n) ==
    IF n = 0 THEN {<<>>}
    ELSE LET shorter == Strings(n - 1)
         IN  shorter \cup {Append(s, c) : s \in shorter, c \in SanChars}

SanInputs == Strings(MaxSanLen) \cup {NONE}

SanitizeInit ==
    /\ InitServer
    /\ san \in {Called(x) : x \in SanInputs}

\* y = sanitize_input(x)
Sanitize ==
    /\ san.calls = 0
    /\ san' = [san EXCEPT !.once = sanitize_input(san.arg), !.calls = 1]
    /\ UNCHANGED <<now, response_cache, pc, upload, cache_key, text, prompt,
                   result, resp, outcome, callStart, trace, hist>>

\* sanitize_input(y)
SanitizeAgain ==
    /\ san.calls = 1
    /\ san' = [san EXCEPT !.twice = sanitize_input(san.once), !.calls = 2]
    /\ UNCHANGED <<now, response_cache, pc, upload, cache_key, text, prompt,
                   result, resp, outcome, callStart, trace, hist>>

SanitizeNext == Sanitize \/ SanitizeAgain

SanitizeSpec == SanitizeInit /\ [][SanitizeNext]_vars

\* ------------------------------------------------------ properties

Ops(r) == {trace[r][i] : i \in 1..Len(trace[r])}

Done(r) == pc[r] = "Done"

\* The request passed validation: it has a cache key.
Keyed(r) == pc[r] # "Idle" /\ cache_key[r] # NoKey

\* The link a request stored: its key, its result, the time of its store.
StoredLink(p) ==
    [key |-> cache_key[p], value |-> result[p],
     expires |-> hist[p].storedAt + TTL, at |-> hist[p].storedAt]

HasError(r) == "error" \in DOMAIN resp[r].body

\* C2, as claimed: a completion call that fails with an authentication
\* failure is answered 401 with an error field and no summary or analysis.
C2_AuthFailureGives401 ==
    \A r \in Reqs :
        (Done(r) /\ outcome[r].kind = "AuthenticationError")
        => /\ resp[r].status = 401
           /\ HasError(r)
           /\ DOMAIN resp[r].body \cap {"summary", "analysis"} = {}

\* The document cannot be parsed, or its pages hold no text but whitespace.
Unreadable(doc) == doc.corrupt \/ StripsToEmpty(ConcatPages(doc.pages))

\* C3, as claimed: a request with an unreadable document is answered 400 with
\* an error, and never calls the completion service, whatever the cache holds.
C3_UnreadableGives400 ==
    \A r \in Reqs :
        (Keyed(r) /\ Unreadable(upload[r].doc))
        => /\ "complete" \notin Ops(r)
           /\ Done(r) => (resp[r].status = 400 /\ HasError(r))

\* The last four characters of the name are ".pdf" in any case.
EndsWithDotPdf(name) ==
    /\ Len(name) >= 4
    /\ lowerStr(SubSeq(name, Len(name) - 3, Len(name))) = <<46, 112, 100, 102>>

InvalidUpload(u) ==
    \/ ~u.hasFile
    \/ u.filename = <<>>
    \/ ~EndsWithDotPdf(u.filename)
    \/ u.size > 16 * 1024 * 1024

\* C4: a request that fails upload validation ends at once with 400, or 413
\* when the payload is over 16 MiB, and performs no extraction, no cache
\* lookup or store and no completion call.
C4_InvalidUploadRejected ==
    \A r \in Reqs :
        (pc[r] # "Idle" /\ InvalidUpload(upload[r]))
        => /\ Done(r)
           /\ resp[r].status = IF upload[r].size > 16 * 1024 * 1024 THEN 413 ELSE 400
           /\ HasError(r)
           /\ trace[r] = <<"validate", "respond">>
           /\ cache_key[r] = NoKey

\* One request was refused for its size and another for its extension.
C4_Witness ==
    \E r, q \in Reqs :
        /\ Done(r) /\ upload[r].size > 16 * 1024 * 1024 /\ resp[r].status = 413
        /\ Done(q) /\ upload[q].filename = B_TXT /\ resp[q].status = 400
        /\ trace[q] = <<"validate", "respond">>

\* The links of the cache, whatever their order.
Links(c) == {c[i] : i \in 1..Len(c)}

\* The handler of r takes the step from one stage to another.
Steps(r, from, to) == pc[r] = from /\ pc'[r] = to

\* The cache holds the payload v under the key k.
Holds(c, k, v) == HasKey(c, k) /\ LinkOf(c, k).value = v

\* A request answers 200 with the text the completion service generated.
AnswersGenerated(r) ==
    Steps(r, "Responding", "Done")
    => /\ resp'[r] = [status |-> 200, body |-> result[r]]
       /\ resp'[r].body.analysis = outcome[r].content

\* Every link that appears in the cache, or changes, is stored by a request
\* that missed the cache and whose completion call returned content.
OnlySuccessfulMissStores ==
    \A l \in Links(response_cache') \ Links(response_cache) :
        \E r \in Reqs :
            /\ Steps(r, "Caching", "Responding")
            /\ l.key = cache_key[r] /\ l.value = result[r]
            /\ hist[r].hit = NoLink
            /\ outcome[r].kind = "content"

\* A request that answered an error has stored nothing.
ErrorsStoreNothing ==
    \A r \in Reqs : (Done(r) /\ resp[r].status # 200) => "setitem" \notin Ops(r)

\* C5, as claimed: after a miss and a successful completion call the handler
\* answers 200 with the generated text and, when it answers, the cache holds
\* that payload under the request's fingerprint; and only such a request
\* creates or changes a cache entry.
C5_CacheHoldsPayloadAtResponse ==
    /\ [][/\ \A r \in Reqs : AnswersGenerated(r)
          /\ \A r \in Reqs : Steps(r, "Responding", "Done")
                => Holds(response_cache', cache_key[r], resp'[r].body)
          /\ OnlySuccessfulMissStores]_vars
    /\ []ErrorsStoreNothing

\* C5, amended: the cache holds the payload under the fingerprint when the
\* request has stored it (not necessarily still when it answers); the rest
\* as claimed.
C5_CacheHoldsPayloadAtStore ==
    /\ [][/\ \A r \in Reqs : AnswersGenerated(r)
          /\ \A r \in Reqs : Steps(r, "Caching", "Responding")
                => Holds(response_cache', cache_key[r], result[r])
          /\ OnlySuccessfulMissStores]_vars
    /\ []ErrorsStoreNothing

\* A request has missed, stored and answered the generated text, and the
\* cache still holds its payload.
C5_Witness ==
    \E r \in Reqs :
        /\ Done(r) /\ "setitem" \in Ops(r)
        /\ resp[r] = [status |-> 200, body |-> result[r]]
        /\ result[r].analysis = ISSUE_TEXT
        /\ Holds(response_cache, cache_key[r], result[r])

\* In the trace t every b comes after an a.
Before(t, a, b) ==
    \A j \in 1..Len(t) : t[j] = b => \E i \in 1..(j - 1) : t[i] = a

\* C6, as claimed: validation, then extraction, then the cache lookup, then
\* either the read of the hit and the response, or prompt, completion call,
\* store and response.
C6_StageOrder ==
    \A r \in Reqs :
        LET t == trace[r]
        IN  /\ t # <<>> => t[1] = "validate"
            /\ Before(t, "validate", "extract")
            /\ Before(t, "extract", "contains")
            /\ Before(t, "contains", "getitem")
            /\ Before(t, "extract", "prompt")
            /\ Before(t, "contains", "prompt")
            /\ Before(t, "prompt", "complete")
            /\ Before(t, "complete", "setitem")
            /\ \A j \in 1..Len(t) : t[j] = "respond" => j = Len(t)
            /\ "getitem" \in Ops(r) => Ops(r) \cap {"prompt", "complete", "setitem"} = {}

\* The completion service returned no content.
NoContent(o) ==
    \/ o.kind = "no_choices"
    \/ o.kind = "content" /\ o.content \in {NONE, <<>>}

\* C7, as claimed: a completion that returns no content is answered with a
\* 500-class error, never with a 200 that carries a blank analysis.
C7_NoContentIsAnError ==
    \A r \in Reqs :
        Done(r)
        => /\ NoContent(outcome[r]) => (resp[r].status >= 500 /\ HasError(r))
           /\ (resp[r].status = 200 /\ "complete" \in Ops(r))
                => resp[r].body.analysis \notin {NONE, <<>>}

\* The key has a link stored less than TTL ago.
LiveLinks(k) == {l \in Links(response_cache) : l.key = k /\ now - l.at < TTL}

\* Every link expires TTL after it was stored.
LifetimeFixed ==
    \A l \in Links(response_cache) : l.expires = l.at + TTL /\ l.at <= now

\* A membership test succeeds exactly when the key was stored less than TTL
\* ago and is still held; otherwise the request goes on to recompute.
LookupByAge ==
    \A r \in Reqs :
        (pc[r] = "CacheLookup" /\ pc'[r] # "CacheLookup")
        => pc'[r] = IF LiveLinks(cache_key[r]) # {} THEN "CacheHit" ELSE "Extracting"

\* A read returns exactly the stored value of a live link, and nothing else.
ReadByAge ==
    \A r \in Reqs :
        Steps(r, "CacheHit", "Done")
        => IF LiveLinks(cache_key[r]) # {}
           THEN \E l \in LiveLinks(cache_key[r]) :
                    resp'[r] = [status |-> 200, body |-> l.value]
           ELSE resp'[r].status = 500

\* Membership tests and reads leave every link as it is.
ReadsKeepLinks ==
    \A r \in Reqs :
        (pc[r] \in {"CacheLookup", "CacheHit"} /\ pc'[r] # pc[r])
        => Links(response_cache') = Links(response_cache)

\* C8: the lifetime of an entry is fixed when it is stored: TTL after the
\* store a lookup finds it absent, however often it was read, and the
\* request recomputes; before that, while it is held, a lookup returns the
\* stored value.
C8_LifetimeFixedAtInsertion ==
    /\ []LifetimeFixed
    /\ [][LookupByAge /\ ReadByAge /\ ReadsKeepLinks]_vars

\* A request has called the completion service again because the link of
\* its key, still in the cache, was stored TTL ago or more.
C8_Witness ==
    \E q \in Reqs : \E l \in Links(response_cache) :
        /\ l.key = cache_key[q]
        /\ pc[q] = "Completing"
        /\ hist[q].hit = NoLink
        /\ callStart[q] >= l.at + TTL

\* C9, as claimed: a completion call that has not answered is ended when
\* OPENAI_TIMEOUT has passed, and the request answers an error.
C9_CallEndsAtTimeout ==
    \A r \in Reqs : pc[r] = "Completing" => now - callStart[r] < OPENAI_TIMEOUT

\* C10, as claimed: the prompt sent is a function of role, case name and
\* text, and holds no more than the first CHAR_BUDGET characters of the text.
C10_PromptWithinBudget ==
    /\ \A r \in Reqs :
          "complete" \in Ops(r)
          => /\ Len(prompt[r].text) <= CHAR_BUDGET
             /\ prompt[r].text = SubSeq(text[r], 1, Len(prompt[r].text))
    /\ \A r, q \in Reqs :
          (/\ "complete" \in Ops(r) /\ "complete" \in Ops(q)
           /\ RoleOf(upload[r]) = RoleOf(upload[q])
           /\ CaseNameOf(upload[r]) = CaseNameOf(upload[q])
           /\ text[r] = text[q])
          => prompt[r] = prompt[q]

\* The error texts the handler's return statements hold.
HandlerMessages ==
    { "No file part", "No selected file",
      "Invalid file type. Only PDF files are allowed.",
      "The uploaded PDF appears to be empty or could not be read",
      "Error processing PDF file",
      "Error generating analysis. Please try again later.",
      "File too large", "An unexpected error occurred" }

\* str(e) of the exceptions the handler of r has caught: RequestEntityTooLarge
\* at the upload, the ValueError of the extractor, the failure of the
\* completion call, the KeyError of a read that found no link.
CaughtTexts(r) ==
    (IF upload[r].size > MAX_CONTENT_LENGTH
     THEN {"413 Request Entity Too Large"} ELSE {})
    \cup (IF "extract" \in Ops(r) /\ upload[r].doc.corrupt
          THEN {"Failed to extract text from PDF"} ELSE {})
    \cup (IF outcome[r].kind \notin {"none", "content"}
          THEN {str_e(outcome[r])} ELSE {})
    \cup (IF "getitem" \in Ops(r) /\ Done(r) /\ hist[r].read = NoLink
          THEN {"KeyError"} ELSE {})

\* C11: every error response, on every failure path, is a body with just an
\* error field, whose text is one of the handler's own; it is never the text
\* of an exception the handler caught.
C11_ErrorTextFixedByHandler ==
    \A r \in Reqs :
        (Done(r) /\ resp[r].status # 200)
        => /\ DOMAIN resp[r].body = {"error"}
           /\ resp[r].body.error \in HandlerMessages
           /\ resp[r].body.error \notin CaughtTexts(r)
           /\ (CaughtTexts(r) # {} \/ resp[r].status = 400)

\* One request was answered 500 after its completion call raised, and
\* another 400 after the extractor raised.
C11_Witness ==
    \E r, q \in Reqs :
        /\ Done(r) /\ outcome[r].kind = "AuthenticationError"
        /\ resp[r] = Error(500, "Error generating analysis. Please try again later.")
        /\ Done(q) /\ "extract" \in Ops(q) /\ upload[q].doc.corrupt
        /\ resp[q] = Error(400, "Error processing PDF file")

\* The positions of x whose characters are printable ASCII or newline.
KeptAt(x) ==
    {i \in 1..Len(x) : (x[i] >= 32 /\ x[i] <= 126) \/ x[i] = 10}

\* y is x without the characters at the other positions, in the order of x.
RemovesExactly(x, y) ==
    /\ Len(y) = Cardinality(KeptAt(x))
    /\ \A i \in KeptAt(x) : y[Cardinality({j \in KeptAt(x) : j <= i})] = x[i]

\* C12: sanitize_input returns its input without exactly the characters that
\* are neither printable ASCII nor newline, the others in their order; the
\* empty string for an empty input or None; and a second call changes nothing.
C12_SanitizeRemovesExactly ==
    /\ san.calls >= 1
          => /\ san.arg # NONE => RemovesExactly(san.arg, san.once)
             /\ san.arg \in {NONE, <<>>} => san.once = <<>>
    /\ san.calls = 2 => san.twice = san.once

\* A tab followed by a newline has been sanitized twice and only the newline
\* is left.
C12_Witness ==
    /\ san.calls = 2
    /\ san.arg = <<9, 10>>
    /\ san.once = <<10>>
    /\ san.twice = <<10>>

\* C13, as claimed: a request whose membership test succeeded answers 200
\* with the payload the test found; its read never fails, whatever expires
\* or is evicted in between, and it never answers 500.
C13_HitNeverFails ==
    \A r \in Reqs :
        (hist[r].hit # NoLink /\ Done(r))
        => /\ hist[r].read # NoLink
           /\ resp[r] = [status |-> 200, body |-> hist[r].hit.value]

====
